---- MODULE Spec2Model ----
(***************************************************************************)
(* Shop API (lecture_2/hw/shop_api/main.py): two module-level dicts,       *)
(* items_map and cart_map, and the HTTP handlers that read and write them. *)
(*                                                                         *)
(* Spec      every handler is one atomic step (requests served one after   *)
(*           the other).                                                   *)
(* HistSpec  the item handlers and the cart writes of Spec, with history   *)
(*           variables recording what was called.                          *)
(* QuerySpec the two list handlers with all their query parameters, on the *)
(*           stores the creating, adding and deleting handlers build (Spec *)
(*           calls the list handlers with their default query only).       *)
(* ConcSpec  the two creation handlers served by a thread pool: each       *)
(*           request computes its id from len(items_map) in one step and   *)
(*           stores the record in a later step, other requests in between. *)
(*                                                                         *)
(* A Python dict is a function from its keys; items_map[id] = v inserts or *)
(* overwrites (DictSet).  Prices are floats in the code; the model draws   *)
(* them from a small set of integer values, on which float arithmetic is   *)
(* exact.  None is NoneName / NonePrice.                                   *)
(***************************************************************************)
EXTENDS Integers, Sequences, FiniteSets, TLC

\* ------------------------------------------------------------------ bounds
MaxItems == 2          \* items stored
MaxCarts == 2          \* carts stored
MaxCartRefs == 2       \* item ids held by all the carts together
MaxCartCreates == 2    \* cart Create calls recorded (HistSpec)
NThreads == 3          \* concurrent creation requests (ConcSpec)

Names == {"", "a"}
Prices == {0, 5}
NoneName == "<None>"
NonePrice == -1
OptNames == Names \cup {NoneName}
OptPrices == Prices \cup {NonePrice}
NoneQuantity == -1
DefaultOffset == 0
DefaultLimit == 10
\* query parameters of the two list handlers, as the Query(...) constraints
\* admit them: offset >= 0, limit > 0, item price bounds > 0, cart price and
\* quantity bounds >= 0, each bound possibly absent
ItemOffsets == 0..MaxItems
ItemLimits == 1..MaxItems
ItemMinPrices == {NonePrice, 5}
ItemMaxPrices == {NonePrice, 3, 5}
CartOffsets == 0..MaxCarts
CartLimits == 1..MaxCarts
CartPriceBounds == {NonePrice, 5}
CartQuantityBounds == {NoneQuantity, 1}
\* ids a request may name: every id an item or a cart can get (an item never
\* gets MaxItems + 1, a cart does)
Ids == 1..(MaxItems + 1)
Threads == 1..NThreads

\* HTTP status codes
OK == 200
INTERNAL_SERVER_ERROR == 500
CREATED == 201
NOT_MODIFIED == 304
NOT_FOUND == 404

VARIABLES
    items_map,      \* Dict[int, Item]
    cart_map,       \* Dict[int, Cart]
    resp,           \* the last request served and its response
    cart_created,   \* history: the ids returned by create_cart, in call order
    sdel_hist,      \* history, per item id: "never" (delete_item never called
                    \* on it), "called" (called, no put_item on it since),
                    \* "replaced" (put_item on it after a delete_item)
    pre_deleted,    \* history: the last request named a stored item that was
                    \* deleted when the request arrived
    pc,             \* ConcSpec: where each request thread stands
    local           \* ConcSpec: each request thread's locals

prog == <<items_map, cart_map, resp>>
hist == <<cart_created, sdel_hist, pre_deleted>>
conc == <<pc, local>>
vars == <<items_map, cart_map, resp, cart_created, sdel_hist, pre_deleted,
          pc, local>>

\* ------------------------------------------------------------ data helpers
Len_(m) == Cardinality(DOMAIN m)

RECURSIVE TotalRefs(_, _)
TotalRefs(m, keys) ==
    IF keys = {} THEN 0
    ELSE LET k == CHOOSE x \in keys : TRUE IN
         Len(m[k].item_ids) + TotalRefs(m, keys \ {k})

DictSet(m, k, v) == [x \in (DOMAIN m) \cup {k} |-> IF x = k THEN v ELSE m[x]]

IsPrefix(s, t) == Len(s) <= Len(t) /\ SubSeq(t, 1, Len(s)) = s

Item(id, name, price, deleted) ==
    [id |-> id, name |-> name, price |-> price, deleted |-> deleted]

Cart(id, item_ids) == [id |-> id, item_ids |-> item_ids]

CreateItemRequest(name, price) == [name |-> name, price |-> price]

UpdateItemRequest(name, price) == [name |-> name, price |-> price]

Null == [kind |-> "null"]

\* HTTPException(NOT_FOUND, detail=...): the detail names the collection and
\* the reason; the id printed in the text is the request's own id
NotFoundDetail(collection, id, why) ==
    [kind |-> "detail", collection |-> collection, why |-> why]

Response(op, status, body) == [op |-> op, status |-> status, body |-> body]

\* ---------------------------------------------------------- pure functions
build_item_keep_deleted(id, request) ==
    Item(id, request.name, request.price,
         IF id \in DOMAIN items_map THEN items_map[id].deleted ELSE FALSE)

build_item(id, request) == Item(id, request.name, request.price, FALSE)

next_item_id_from_carts == Len_(cart_map) + 1

next_item_id == Len_(items_map) + 1

next_cart_id == Len_(items_map) + 1

get_item_response_no_deleted_check(id) ==
    IF id \notin DOMAIN items_map
    THEN Response("get_item", NOT_FOUND,
                  NotFoundDetail("Item", id, "not found"))
    ELSE Response("get_item", OK, items_map[id])

get_item_response(id) ==
    IF id \notin DOMAIN items_map
    THEN Response("get_item", NOT_FOUND,
                  NotFoundDetail("Item", id, "not found"))
    ELSE IF items_map[id].deleted
    THEN Response("get_item", NOT_FOUND,
                  NotFoundDetail("Item", id, "was deleted"))
    ELSE Response("get_item", OK, items_map[id])

\* patch_item past assert_item_exists: the item left in the dict and the status
patched_ignore_deleted(item, request) ==
    [item |-> [item EXCEPT
                 !.name = IF request.name # NoneName THEN request.name ELSE @,
                 !.price = IF request.price # NonePrice THEN request.price ELSE @],
     status |-> OK]

patched_truthy(item, request) ==
    IF item.deleted
    THEN [item |-> item, status |-> NOT_MODIFIED]
    ELSE [item |-> [item EXCEPT
                 !.name = IF request.name \notin {NoneName, ""}
                          THEN request.name ELSE @,
                 !.price = IF request.price \notin {NonePrice, 0}
                           THEN request.price ELSE @],
          status |-> OK]

patched(item, request) ==
    IF item.deleted
    THEN [item |-> item, status |-> NOT_MODIFIED]
    ELSE [item |-> [item EXCEPT
                 !.name = IF request.name # NoneName THEN request.name ELSE @,
                 !.price = IF request.price # NonePrice THEN request.price ELSE @],
          status |-> OK]

mark_deleted_toggle(item) == [item EXCEPT !.deleted = ~item.deleted]

mark_deleted(item) == [item EXCEPT !.deleted = TRUE]

\* dict.values(): the values in insertion order.  Served one after the other,
\* both dicts get their keys in ascending order (every new key is
\* len(items_map) + 1, which never decreases, and storing under a key that is
\* already there keeps its place), so insertion order is key order.
RECURSIVE values(_, _)
values(m, keys) ==
    IF keys = {} THEN <<>>
    ELSE LET k == CHOOSE x \in keys : \A y \in keys : x <= y IN
         <<m[k]>> \o values(m, keys \ {k})

\* Counter(item_ids).items(): (id, count) pairs, ids in order of first occurrence
RECURSIVE FirstOccurrences(_)
FirstOccurrences(s) ==
    IF s = <<>> THEN <<>>
    ELSE LET r == FirstOccurrences(SubSeq(s, 1, Len(s) - 1))
             x == s[Len(s)] IN
         IF \E i \in 1..Len(r) : r[i] = x THEN r ELSE Append(r, x)

Counter(s) ==
    LET d == FirstOccurrences(s) IN
    [i \in 1..Len(d) |->
        [id |-> d[i],
         count |-> Cardinality({j \in 1..Len(s) : s[j] = d[i]})]]

CartItem(id, name, quantity, available) ==
    [id |-> id, name |-> name, quantity |-> quantity, available |-> available]

CartResponse(id, items, price) == [id |-> id, items |-> items, price |-> price]

\* items_map.get(id) is None for an id that is not stored, and item.name then
\* raises AttributeError: the request ends in a server error
AttributeError == [kind |-> "AttributeError"]

build_cart_item(id, count) ==
    IF id \notin DOMAIN items_map
    THEN AttributeError
    ELSE CartItem(id, items_map[id].name, count, ~items_map[id].deleted)

RECURSIVE sum(_)
sum(s) == IF s = <<>> THEN 0 ELSE s[1] + sum(Tail(s))

\* the terms of sum(... for item in items if item.available)
priced_lines_all(items) ==
    [i \in 1..Len(items) |-> items[i].quantity * items_map[items[i].id].price]

priced_lines(items) ==
    LET available == SelectSeq(items, LAMBDA item : item.available) IN
    [i \in 1..Len(available) |->
        available[i].quantity * items_map[available[i].id].price]

build_cart_response_one_line_each(cart) ==
    LET items == [i \in 1..Len(cart.item_ids) |->
                     build_cart_item(cart.item_ids[i], 1)] IN
    IF \E i \in 1..Len(items) : items[i] = AttributeError
    THEN AttributeError
    ELSE CartResponse(cart.id, items, sum(priced_lines(items)))

build_cart_response(cart) ==
    LET counter == Counter(cart.item_ids)
        items == [i \in 1..Len(counter) |->
                     build_cart_item(counter[i].id, counter[i].count)] IN
    IF \E i \in 1..Len(items) : items[i] = AttributeError
    THEN AttributeError
    ELSE CartResponse(cart.id, items, sum(priced_lines(items)))

Min(a, b) == IF a <= b THEN a ELSE b

apply_offset_limit_from_one(data, offset, limit) ==
    SubSeq(data, offset, Min(Len(data), offset + limit))

\* data[offset:min(len(data), offset + limit)], offset >= 0
apply_offset_limit(data, offset, limit) ==
    SubSeq(data, offset + 1, Min(Len(data), offset + limit))

get_cart_response_empty_if_absent(id) ==
    IF id \notin DOMAIN cart_map
    THEN Response("get_cart", OK, CartResponse(id, <<>>, 0))
    ELSE LET r == build_cart_response(cart_map[id]) IN
         IF r = AttributeError
         THEN Response("get_cart", INTERNAL_SERVER_ERROR, r)
         ELSE Response("get_cart", OK, r)

get_cart_response(id) ==
    IF id \notin DOMAIN cart_map
    THEN Response("get_cart", NOT_FOUND,
                  NotFoundDetail("Cart", id, "not found"))
    ELSE LET r == build_cart_response(cart_map[id]) IN
         IF r = AttributeError
         THEN Response("get_cart", INTERNAL_SERVER_ERROR, r)
         ELSE Response("get_cart", OK, r)

number_of_lines(cart) == Len(cart.items)

total_quantity(cart) ==
    sum([i \in 1..Len(cart.items) |-> cart.items[i].quantity])

cart_passes(cart, min_price, max_price, min_quantity, max_quantity) ==
    /\ (min_price = NonePrice \/ cart.price >= min_price)
    /\ (max_price = NonePrice \/ cart.price <= max_price)
    /\ (min_quantity = NoneQuantity \/ total_quantity(cart) >= min_quantity)
    /\ (max_quantity = NoneQuantity \/ total_quantity(cart) <= max_quantity)

get_carts_response(offset, limit, min_price, max_price, min_quantity, max_quantity) ==
    LET stored == values(cart_map, DOMAIN cart_map)
        carts == [i \in 1..Len(stored) |-> build_cart_response(stored[i])] IN
    IF \E i \in 1..Len(carts) : carts[i] = AttributeError
    THEN Response("get_carts", INTERNAL_SERVER_ERROR, AttributeError)
    ELSE LET carts_filtered ==
                 SelectSeq(carts, LAMBDA cart :
                     cart_passes(cart, min_price, max_price,
                                 min_quantity, max_quantity)) IN
         Response("get_carts", OK,
                  apply_offset_limit(carts_filtered, offset, limit))

item_passes_strict(item, min_price, max_price, show_deleted) ==
    /\ (min_price = NonePrice \/ item.price > min_price)
    /\ (max_price = NonePrice \/ item.price < max_price)
    /\ (show_deleted \/ ~item.deleted)

item_passes(item, min_price, max_price, show_deleted) ==
    /\ (min_price = NonePrice \/ item.price >= min_price)
    /\ (max_price = NonePrice \/ item.price <= max_price)
    /\ (show_deleted \/ ~item.deleted)

get_items_response(offset, limit, min_price, max_price, show_deleted) ==
    LET items_filtered ==
            SelectSeq(values(items_map, DOMAIN items_map), LAMBDA item :
                item_passes(item, min_price, max_price, show_deleted)) IN
    Response("get_items", OK, apply_offset_limit(items_filtered, offset, limit))

\* ------------------------------------------------------------------- Init
Init ==
    /\ items_map = <<>>
    /\ cart_map = <<>>
    /\ resp = Response("none", OK, Null)
    /\ cart_created = <<>>
    /\ sdel_hist = <<>>
    /\ pre_deleted = FALSE
    /\ pc = [t \in Threads |-> "idle"]
    /\ local = [t \in Threads |-> Null]

\* ------------------------------------------------- handlers, one step each
\* Each handler says what it does to items_map, cart_map and the response.
create_cart ==
    LET id == next_cart_id IN
    /\ Len_(DictSet(cart_map, id, Cart(id, <<>>))) <= MaxCarts    \* bound
    /\ cart_map' = DictSet(cart_map, id, Cart(id, <<>>))
    /\ resp' = Response("create_cart", CREATED, [id |-> id])
    /\ UNCHANGED items_map

create_item(name, price) ==
    LET id == next_item_id
        item == build_item(id, CreateItemRequest(name, price)) IN
    /\ Len_(items_map) < MaxItems                                \* bound
    /\ items_map' = DictSet(items_map, id, item)
    /\ resp' = Response("create_item", CREATED, item)
    /\ UNCHANGED cart_map

get_item(id) ==
    /\ resp' = get_item_response(id)
    /\ UNCHANGED <<items_map, cart_map>>

add_item_to_cart_prepend(cart_id, item_id) ==
    /\ IF cart_id \notin DOMAIN cart_map
       THEN /\ resp' = Response("add_item_to_cart", NOT_FOUND,
                                NotFoundDetail("Cart", cart_id, "not found"))
            /\ UNCHANGED cart_map
       ELSE IF item_id \notin DOMAIN items_map
       THEN /\ resp' = Response("add_item_to_cart", NOT_FOUND,
                                NotFoundDetail("Item", item_id, "not found"))
            /\ UNCHANGED cart_map
       ELSE /\ TotalRefs(cart_map, DOMAIN cart_map) < MaxCartRefs
            /\ cart_map' = [cart_map EXCEPT
                              ![cart_id].item_ids = <<item_id>> \o @]
            /\ resp' = Response("add_item_to_cart", OK, Null)
    /\ UNCHANGED items_map

add_item_to_cart_unchecked(cart_id, item_id) ==
    /\ IF cart_id \notin DOMAIN cart_map
       THEN /\ resp' = Response("add_item_to_cart", NOT_FOUND,
                                NotFoundDetail("Cart", cart_id, "not found"))
            /\ UNCHANGED cart_map
       ELSE /\ TotalRefs(cart_map, DOMAIN cart_map) < MaxCartRefs
            /\ cart_map' = [cart_map EXCEPT
                              ![cart_id].item_ids = Append(@, item_id)]
            /\ resp' = Response("add_item_to_cart", OK, Null)
    /\ UNCHANGED items_map

add_item_to_cart(cart_id, item_id) ==
    /\ IF cart_id \notin DOMAIN cart_map
       THEN /\ resp' = Response("add_item_to_cart", NOT_FOUND,
                                NotFoundDetail("Cart", cart_id, "not found"))
            /\ UNCHANGED cart_map
       ELSE IF item_id \notin DOMAIN items_map
       THEN /\ resp' = Response("add_item_to_cart", NOT_FOUND,
                                NotFoundDetail("Item", item_id, "not found"))
            /\ UNCHANGED cart_map
       ELSE /\ TotalRefs(cart_map, DOMAIN cart_map) < MaxCartRefs  \* bound
            /\ cart_map' = [cart_map EXCEPT
                              ![cart_id].item_ids = Append(@, item_id)]
            /\ resp' = Response("add_item_to_cart", OK, Null)
    /\ UNCHANGED items_map

put_item(id, name, price) ==
    /\ IF id \notin DOMAIN items_map
       THEN /\ resp' = Response("put_item", NOT_FOUND,
                                NotFoundDetail("Item", id, "not found"))
            /\ UNCHANGED items_map
       ELSE LET item == build_item(id, CreateItemRequest(name, price)) IN
            /\ items_map' = DictSet(items_map, id, item)
            /\ resp' = Response("put_item", OK, item)
    /\ UNCHANGED cart_map

patch_item(id, name, price) ==
    /\ IF id \notin DOMAIN items_map
       THEN /\ resp' = Response("patch_item", NOT_FOUND,
                                NotFoundDetail("Item", id, "not found"))
            /\ UNCHANGED items_map
       ELSE LET r == patched(items_map[id], UpdateItemRequest(name, price)) IN
            /\ items_map' = [items_map EXCEPT ![id] = r.item]
            /\ resp' = Response("patch_item", r.status, r.item)
    /\ UNCHANGED cart_map

delete_item(id) ==
    /\ IF id \notin DOMAIN items_map
       THEN /\ resp' = Response("delete_item", NOT_FOUND,
                                NotFoundDetail("Item", id, "not found"))
            /\ UNCHANGED items_map
       ELSE /\ items_map' = [items_map EXCEPT ![id] = mark_deleted(@)]
            /\ resp' = Response("delete_item", OK, Null)
    /\ UNCHANGED cart_map

get_cart_creating(id) ==
    /\ resp' = get_cart_response(id)
    /\ cart_map' = IF id \in DOMAIN cart_map THEN cart_map
                   ELSE DictSet(cart_map, id, Cart(id, <<>>))
    /\ UNCHANGED items_map

get_cart(id) ==
    /\ resp' = get_cart_response(id)
    /\ UNCHANGED <<items_map, cart_map>>

get_carts(offset, limit, min_price, max_price, min_quantity, max_quantity) ==
    /\ resp' = get_carts_response(offset, limit, min_price, max_price,
                                  min_quantity, max_quantity)
    /\ UNCHANGED <<items_map, cart_map>>

get_items(offset, limit, min_price, max_price, show_deleted) ==
    /\ resp' = get_items_response(offset, limit, min_price, max_price,
                                  show_deleted)
    /\ UNCHANGED <<items_map, cart_map>>

\* ------------------------------------------------------- Spec: sequential
Next ==
    \/ create_cart /\ UNCHANGED <<hist, conc>>
    \/ \E name \in Names, price \in Prices :
          create_item(name, price) /\ UNCHANGED <<hist, conc>>
    \/ \E id \in Ids : get_item(id) /\ UNCHANGED <<hist, conc>>
    \/ \E cart_id \in Ids, item_id \in Ids :
          add_item_to_cart(cart_id, item_id) /\ UNCHANGED <<hist, conc>>
    \/ \E id \in Ids, name \in Names, price \in Prices :
          put_item(id, name, price) /\ UNCHANGED <<hist, conc>>
    \/ \E id \in Ids, name \in OptNames, price \in OptPrices :
          patch_item(id, name, price) /\ UNCHANGED <<hist, conc>>
    \/ \E id \in Ids : delete_item(id) /\ UNCHANGED <<hist, conc>>
    \/ \E id \in Ids : get_cart(id) /\ UNCHANGED <<hist, conc>>
    \/ /\ get_carts(DefaultOffset, DefaultLimit, NonePrice, NonePrice,
                    NoneQuantity, NoneQuantity)
       /\ UNCHANGED <<hist, conc>>
    \/ /\ get_items(DefaultOffset, DefaultLimit, NonePrice, NonePrice, TRUE)
       /\ UNCHANGED <<hist, conc>>

Spec == Init /\ [][Next]_vars

\* --------------------------------- QuerySpec: the list handlers' parameters
\* The two list handlers with every combination of their query parameters, on
\* the stores that create_item, create_cart, add_item_to_cart and delete_item
\* build (put_item and patch_item lead to no items_map that these do not).
\* The list handlers copy an item's name and never test it: one name is enough.
QueryNames == {"a"}

QueryNext ==
    \/ create_cart /\ UNCHANGED <<hist, conc>>
    \/ \E name \in QueryNames, price \in Prices :
          create_item(name, price) /\ UNCHANGED <<hist, conc>>
    \/ \E cart_id \in Ids, item_id \in Ids :
          add_item_to_cart(cart_id, item_id) /\ UNCHANGED <<hist, conc>>
    \/ \E id \in Ids : delete_item(id) /\ UNCHANGED <<hist, conc>>
    \/ \E offset \in CartOffsets, limit \in CartLimits,
          min_price \in CartPriceBounds, max_price \in CartPriceBounds,
          min_quantity \in CartQuantityBounds,
          max_quantity \in CartQuantityBounds :
          /\ get_carts(offset, limit, min_price, max_price,
                       min_quantity, max_quantity)
          /\ UNCHANGED <<hist, conc>>
    \/ \E offset \in ItemOffsets, limit \in ItemLimits,
          min_price \in ItemMinPrices, max_price \in ItemMaxPrices,
          show_deleted \in BOOLEAN :
          /\ get_items(offset, limit, min_price, max_price, show_deleted)
          /\ UNCHANGED <<hist, conc>>

QuerySpec == Init /\ [][QueryNext]_vars

\* ------------------------------------- HistSpec: sequential, with history
WasDeleted(id) == id \in DOMAIN items_map /\ items_map[id].deleted

HistCreateCart ==
    /\ Len(cart_created) < MaxCartCreates                        \* bound
    /\ create_cart
    /\ cart_created' = Append(cart_created, resp'.body.id)
    /\ pre_deleted' = FALSE
    /\ UNCHANGED <<sdel_hist, conc>>

HistCreateItem(name, price) ==
    /\ create_item(name, price)
    /\ sdel_hist' = DictSet(sdel_hist, resp'.body.id, "never")
    /\ pre_deleted' = FALSE
    /\ UNCHANGED <<cart_created, conc>>

HistGetItem(id) ==
    /\ get_item(id)
    /\ pre_deleted' = WasDeleted(id)
    /\ UNCHANGED <<cart_created, sdel_hist, conc>>

HistAddItemToCart(cart_id, item_id) ==
    /\ add_item_to_cart(cart_id, item_id)
    /\ pre_deleted' = FALSE
    /\ UNCHANGED <<cart_created, sdel_hist, conc>>

HistPutItem(id, name, price) ==
    /\ put_item(id, name, price)
    /\ sdel_hist' = IF id \in DOMAIN sdel_hist /\ sdel_hist[id] = "called"
                    THEN [sdel_hist EXCEPT ![id] = "replaced"]
                    ELSE sdel_hist
    /\ pre_deleted' = WasDeleted(id)
    /\ UNCHANGED <<cart_created, conc>>

HistPatchItem(id, name, price) ==
    /\ patch_item(id, name, price)
    /\ pre_deleted' = WasDeleted(id)
    /\ UNCHANGED <<cart_created, sdel_hist, conc>>

HistDeleteItem(id) ==
    /\ delete_item(id)
    /\ sdel_hist' = IF id \in DOMAIN sdel_hist
                    THEN [sdel_hist EXCEPT ![id] = "called"]
                    ELSE sdel_hist
    /\ pre_deleted' = WasDeleted(id)
    /\ UNCHANGED <<cart_created, conc>>

HistNext ==
    \/ HistCreateCart
    \/ \E name \in Names, price \in Prices : HistCreateItem(name, price)
    \/ \E id \in Ids : HistGetItem(id)
    \/ \E cart_id \in Ids, item_id \in Ids : HistAddItemToCart(cart_id, item_id)
    \/ \E id \in Ids, name \in Names, price \in Prices :
          HistPutItem(id, name, price)
    \/ \E id \in Ids, name \in OptNames, price \in OptPrices :
          HistPatchItem(id, name, price)
    \/ \E id \in Ids : HistDeleteItem(id)

HistSpec == Init /\ [][HistNext]_vars

\* ------------------------------- ConcSpec: creation requests in a thread pool
\* FastAPI serves the plain `def` handlers from a thread pool, so a request can
\* be suspended between reading len(items_map) and storing its record.  Each
\* thread serves one creation request: "idle" -> "store" -> "done".
InFlight == {u \in Threads : pc[u] = "store"}

create_item_read(t, name, price) ==
    LET id == next_item_id IN
    /\ pc[t] = "idle"
    /\ local' = [local EXCEPT ![t] =
                    [kind |-> "item", id |-> id,
                     item |-> build_item(id, CreateItemRequest(name, price)),
                     with |-> InFlight]]
    /\ pc' = [pc EXCEPT ![t] = "store"]
    /\ UNCHANGED <<prog, hist>>

create_item_store(t) ==
    /\ pc[t] = "store"
    /\ local[t].kind = "item"
    /\ items_map' = DictSet(items_map, local[t].id, local[t].item)
    /\ pc' = [pc EXCEPT ![t] = "done"]
    /\ UNCHANGED <<cart_map, resp, hist, local>>

create_cart_read(t) ==
    LET id == next_cart_id IN
    /\ pc[t] = "idle"
    /\ local' = [local EXCEPT ![t] =
                    [kind |-> "cart", id |-> id, cart |-> Cart(id, <<>>),
                     with |-> InFlight]]
    /\ pc' = [pc EXCEPT ![t] = "store"]
    /\ UNCHANGED <<prog, hist>>

create_cart_store(t) ==
    /\ pc[t] = "store"
    /\ local[t].kind = "cart"
    /\ cart_map' = DictSet(cart_map, local[t].id, local[t].cart)
    /\ pc' = [pc EXCEPT ![t] = "done"]
    /\ UNCHANGED <<items_map, resp, hist, local>>

ConcNext ==
    \/ \E t \in Threads, name \in Names, price \in Prices :
          create_item_read(t, name, price)
    \/ \E t \in Threads : create_item_store(t)
    \/ \E t \in Threads : create_cart_read(t)
    \/ \E t \in Threads : create_cart_store(t)

ConcSpec == Init /\ [][ConcNext]_vars

\* ===================================================================== claims

\* C1 (as claimed): the ids returned by the cart Create calls made so far are
\* pairwise different, and there are as many stored carts as cart Create calls.
CartIdsUnique ==
    /\ \A i, j \in 1..Len(cart_created) :
          i # j => cart_created[i] # cart_created[j]
    /\ Len_(cart_map) = Len(cart_created)

\* C2 (as claimed): in every step, every existing cart stays and its earlier
\* item_ids is a prefix of its item_ids after the step.
CartAppendOnly ==
    [][\A c \in DOMAIN cart_map :
          /\ c \in DOMAIN cart_map'
          /\ IsPrefix(cart_map[c].item_ids, cart_map'[c].item_ids)]_vars

\* C3 (as claimed): a cart Create step returns the number of carts existing at
\* the call plus one, and stores under that id a cart with no item ids.
CartCreateIdIsCartCountPlusOne ==
    [][(resp'.op = "create_cart" /\ create_cart) =>
          /\ resp'.body.id = Len_(cart_map) + 1
          /\ cart_map'[resp'.body.id] = Cart(resp'.body.id, <<>>)]_vars

\* t and u both started, and one read its id while the other was in flight
Concurrent(t, u) ==
    /\ pc[t] # "idle"
    /\ pc[u] # "idle"
    /\ (t \in local[u].with \/ u \in local[t].with)

\* C4 (as claimed): two creation requests on the same collection that ran
\* concurrently (one read its id while the other was between its read and its
\* store) are never assigned the same id, and no stored item was overwritten by
\* another creation: there are as many items as finished item creations.
CreatesNeverRace ==
    /\ \A t, u \in Threads :
          (t # u /\ Concurrent(t, u) /\ local[t].kind = local[u].kind)
             => local[t].id # local[u].id
    /\ Len_(items_map) =
          Cardinality({t \in Threads : pc[t] = "done" /\ local[t].kind = "item"})

\* C5 (as claimed): Get on a created item succeeds and returns the stored item
\* as long as SoftDelete has never been called on its id, and fails with
\* NotFound once SoftDelete has been called on it.
GetFailsOnceSoftDeleteCalled ==
    [][resp'.op = "get_item" =>
       \A id \in DOMAIN items_map :
          get_item(id) =>
             IF sdel_hist[id] = "never"
             THEN resp'.status = OK /\ resp'.body = items_map[id]
             ELSE resp'.status = NOT_FOUND]_vars

\* C5 (amended): Get on a created item succeeds and returns the stored item
\* when SoftDelete was never called on its id or a Replace of that id followed
\* the latest SoftDelete; it fails with NotFound when SoftDelete was called and
\* no Replace of that id followed.
GetFailsWhileSoftDeleted ==
    [][resp'.op = "get_item" =>
       \A id \in DOMAIN items_map :
          get_item(id) =>
             IF sdel_hist[id] \in {"never", "replaced"}
             THEN resp'.status = OK /\ resp'.body = items_map[id]
             ELSE resp'.status = NOT_FOUND]_vars

\* C5 witness: a Get has just succeeded on an item that was soft-deleted and
\* then replaced.
GetSucceededAfterReplace ==
    /\ resp.op = "get_item"
    /\ resp.status = OK
    /\ ~pre_deleted
    /\ sdel_hist[resp.body.id] = "replaced"

\* C6 (as claimed): in every step, an item whose deleted flag is true is still
\* stored with its deleted flag true after the step.
DeletedNeverReverts ==
    [][\A id \in DOMAIN items_map :
          items_map[id].deleted =>
             id \in DOMAIN items_map' /\ items_map'[id].deleted]_vars

\* C6 (amended): in every step, an item whose deleted flag is true is still
\* stored after the step, and its deleted flag is still true unless the step
\* is a Replace (put_item) of that item.
DeletedRevertsOnlyByReplace ==
    [][\A id \in DOMAIN items_map :
          items_map[id].deleted =>
             /\ id \in DOMAIN items_map'
             /\ \/ items_map'[id].deleted
                \/ /\ resp'.op = "put_item"
                   /\ \E name \in Names, price \in Prices :
                         put_item(id, name, price)]_vars

\* C6 witness: an item is deleted and the last request was a successful
\* Replace of another item.
DeletedKeptThroughOtherReplace ==
    /\ resp.op = "put_item"
    /\ resp.status = OK
    /\ \E id \in DOMAIN items_map : id # resp.body.id /\ items_map[id].deleted

\* C7: a Replace(id, name, price) step on a stored item leaves that item equal
\* to {id, name, price, deleted = false}, every other item and every cart as
\* they were, answers OK with the new item, and a Get(id) in the state after
\* it succeeds with that item.
ReplaceResurrects ==
    [][resp'.op = "put_item" =>
       \A id \in DOMAIN items_map, name \in Names, price \in Prices :
          put_item(id, name, price) =>
             /\ items_map' =
                   [items_map EXCEPT ![id] = Item(id, name, price, FALSE)]
             /\ cart_map' = cart_map
             /\ resp' = Response("put_item", OK, Item(id, name, price, FALSE))
             /\ get_item_response(id)' =
                   Response("get_item", OK, Item(id, name, price, FALSE))]_vars

\* C7 witness: a Replace has just succeeded on an item that was deleted when
\* the request arrived, with another item and a non-empty cart around.
ReplacedDeletedItem ==
    /\ resp.op = "put_item"
    /\ resp.status = OK
    /\ pre_deleted
    /\ Len_(items_map) > 1
    /\ \E c \in DOMAIN cart_map : cart_map[c].item_ids # <<>>

\* C8: a PartialUpdate step on a stored item whose deleted flag is true changes
\* no item and no cart, answers NOT_MODIFIED and returns the item as stored,
\* whatever name and price are supplied.
PatchDeletedIsNoOp ==
    [][resp'.op = "patch_item" =>
       \A id \in DOMAIN items_map, name \in OptNames, price \in OptPrices :
          (items_map[id].deleted /\ patch_item(id, name, price)) =>
             /\ items_map' = items_map
             /\ cart_map' = cart_map
             /\ resp' = Response("patch_item", NOT_MODIFIED, items_map[id])]_vars

\* C8 witness: a PartialUpdate has just answered NOT_MODIFIED with a deleted
\* item.
PatchAnsweredNotModified ==
    /\ resp.op = "patch_item"
    /\ resp.status = NOT_MODIFIED
    /\ resp.body.deleted
    /\ items_map[resp.body.id] = resp.body

\* C9: a PartialUpdate step on a stored item whose deleted flag is false sets
\* name and price to the supplied values where one is supplied, leaves a field
\* not supplied, the id and the deleted flag as they were, leaves every other
\* item and every cart unchanged, and answers OK ("modified") with the item.
PatchAppliesSuppliedFields ==
    [][resp'.op = "patch_item" =>
       \A id \in DOMAIN items_map, name \in OptNames, price \in OptPrices :
          (~items_map[id].deleted /\ patch_item(id, name, price)) =>
             /\ DOMAIN items_map' = DOMAIN items_map
             /\ items_map'[id].name =
                   (IF name = NoneName THEN items_map[id].name ELSE name)
             /\ items_map'[id].price =
                   (IF price = NonePrice THEN items_map[id].price ELSE price)
             /\ items_map'[id].id = id
             /\ items_map'[id].deleted = FALSE
             /\ \A other \in DOMAIN items_map \ {id} :
                   items_map'[other] = items_map[other]
             /\ cart_map' = cart_map
             /\ resp'.status = OK
             /\ resp'.body = items_map'[id]]_vars

\* C9 witness: a PartialUpdate has just answered OK on an item that now has the
\* empty name and the price 0, next to another item.
PatchedToFalsyValues ==
    /\ resp.op = "patch_item"
    /\ resp.status = OK
    /\ resp.body.name = ""
    /\ resp.body.price = 0
    /\ items_map[resp.body.id] = resp.body
    /\ Len_(items_map) > 1

\* C10: a SoftDelete step on an item on which SoftDelete was already called,
\* with no Replace of it since, answers OK and leaves every item and every
\* cart exactly as they were.
SoftDeleteIdempotent ==
    [][resp'.op = "delete_item" =>
       \A id \in DOMAIN items_map :
          (sdel_hist[id] = "called" /\ delete_item(id)) =>
             /\ resp' = Response("delete_item", OK, Null)
             /\ items_map' = items_map
             /\ cart_map' = cart_map]_vars

\* C10 witness: a SoftDelete has just answered OK on an item that was already
\* deleted when the request arrived.
SoftDeletedAgain ==
    /\ resp.op = "delete_item"
    /\ resp.status = OK
    /\ pre_deleted

\* ------------------------------------------------------------ cart views
\* The sum of f[x] over the x in S.
RECURSIVE SumOver(_, _)
SumOver(f, S) ==
    IF S = {} THEN 0
    ELSE LET x == CHOOSE y \in S : TRUE IN f[x] + SumOver(f, S \ {x})

\* What the lines of a cart view cost at the items' current prices: quantity
\* times current price for an available line, nothing for the others.
CurrentCost(lines) ==
    SumOver([i \in 1..Len(lines) |->
                IF lines[i].available
                THEN lines[i].quantity * items_map[lines[i].id].price
                ELSE 0],
            1..Len(lines))

\* C11: in every reachable state, the price in the view Get gives of any
\* stored cart is the sum, over the view's available lines, of quantity times
\* the item's current price; and the view a Get has just returned carries
\* that price.
CartPriceFromCurrentItems ==
    /\ \A id \in DOMAIN cart_map :
          LET r == get_cart_response(id) IN
          /\ r.status = OK
          /\ r.body.price = CurrentCost(r.body.items)
    /\ (resp.op = "get_cart" /\ resp.status = OK) =>
          resp.body.price = CurrentCost(resp.body.items)

\* C11 witness: a Get has just returned a cart with two priced items, one of
\* them deleted, and its price is that of the other item alone.
CartPricedWithoutDeletedItem ==
    /\ resp.op = "get_cart"
    /\ resp.status = OK
    /\ \E i, j \in 1..Len(resp.body.items) :
          /\ ~resp.body.items[i].available
          /\ items_map[resp.body.items[i].id].price > 0
          /\ resp.body.items[j].available
          /\ resp.body.price = items_map[resp.body.items[j].id].price
          /\ resp.body.price > 0

\* The number of positions of the sequence s that hold x.
Occurrences(s, x) == Cardinality({j \in 1..Len(s) : s[j] = x})

\* C12: in every reachable state, the view Get gives of any stored cart has
\* exactly one line per distinct id in the cart's item_ids, each line's
\* quantity is the number of occurrences of its id, its available flag is the
\* negation of the item's deleted flag (deleted items keep their line), and
\* the quantities of the lines sum to the length of item_ids.
CartLinesAggregate ==
    \A id \in DOMAIN cart_map :
       LET r == get_cart_response(id)
           ids == cart_map[id].item_ids
           lines == r.body.items IN
       /\ r.status = OK
       /\ r.body.id = id
       /\ {lines[i].id : i \in 1..Len(lines)} = {ids[j] : j \in 1..Len(ids)}
       /\ \A i, j \in 1..Len(lines) : lines[i].id = lines[j].id => i = j
       /\ \A i \in 1..Len(lines) :
             /\ lines[i].quantity = Occurrences(ids, lines[i].id)
             /\ lines[i].available = ~items_map[lines[i].id].deleted
             /\ lines[i].name = items_map[lines[i].id].name
       /\ SumOver([i \in 1..Len(lines) |-> lines[i].quantity],
                  1..Len(lines)) = Len(ids)

\* C12 witness: a Get has just returned a cart that holds the same deleted
\* item twice, as one unavailable line with quantity 2.
CartLineCountsRepeatedItem ==
    /\ resp.op = "get_cart"
    /\ resp.status = OK
    /\ Len(resp.body.items) = 1
    /\ resp.body.items[1].quantity = 2
    /\ ~resp.body.items[1].available
    /\ Len(cart_map[resp.body.id].item_ids) = 2

\* C13: an AddItem(cart_id, item_id) step answers NOT_FOUND and changes
\* neither collection when cart_id is not a stored cart or item_id is not a
\* stored item; otherwise, whether or not the item is deleted, it answers OK,
\* appends item_id to the end of that cart's item_ids and changes nothing else.
AddItemAppendsOrFails ==
    [][resp'.op = "add_item_to_cart" =>
       \A cart_id \in Ids, item_id \in Ids :
          add_item_to_cart(cart_id, item_id) =>
             IF cart_id \notin DOMAIN cart_map \/ item_id \notin DOMAIN items_map
             THEN /\ resp'.status = NOT_FOUND
                  /\ items_map' = items_map
                  /\ cart_map' = cart_map
             ELSE /\ resp'.status = OK
                  /\ items_map' = items_map
                  /\ DOMAIN cart_map' = DOMAIN cart_map
                  /\ cart_map'[cart_id].id = cart_map[cart_id].id
                  /\ cart_map'[cart_id].item_ids =
                        Append(cart_map[cart_id].item_ids, item_id)
                  /\ \A other \in DOMAIN cart_map \ {cart_id} :
                        cart_map'[other] = cart_map[other]]_vars

\* C13 witness: an AddItem has just answered OK, and the only item id held by
\* any cart, the one it appended, is that of a deleted item.
AddedDeletedItem ==
    /\ resp.op = "add_item_to_cart"
    /\ resp.status = OK
    /\ TotalRefs(cart_map, DOMAIN cart_map) = 1
    /\ \E id \in DOMAIN cart_map :
          /\ Len(cart_map[id].item_ids) = 1
          /\ items_map[cart_map[id].item_ids[1]].deleted

\* C14: in every reachable state every id in any stored cart's item_ids is
\* the id of a stored item, so Get of any stored cart and the cart List
\* answer OK, and no Get or List of carts has ended in a server error.
CartViewsNeverFail ==
    /\ \A id \in DOMAIN cart_map :
          /\ \A i \in 1..Len(cart_map[id].item_ids) :
                cart_map[id].item_ids[i] \in DOMAIN items_map
          /\ get_cart_response(id).status = OK
    /\ get_carts_response(DefaultOffset, DefaultLimit, NonePrice, NonePrice,
                          NoneQuantity, NoneQuantity).status = OK
    /\ resp.op \in {"get_cart", "get_carts"} =>
          resp.status # INTERNAL_SERVER_ERROR

\* C14 witness: a cart List has just answered OK with a cart that has a line
\* for a deleted item.
ListedCartWithDeletedItem ==
    /\ resp.op = "get_carts"
    /\ resp.status = OK
    /\ \E c \in 1..Len(resp.body) :
          \E i \in 1..Len(resp.body[c].items) :
             /\ ~resp.body[c].items[i].available
             /\ items_map[resp.body[c].items[i].id].deleted

\* ------------------------------------------------------------------ lists
\* The sequence that holds pick[k] for the keys k of keep, in ascending order
\* of k, cut down to the positions offset .. offset + limit - 1 (counted from
\* 0) of that order.
IsPage(page, pick, keep, offset, limit) ==
    LET position(k) == Cardinality({j \in keep : j < k})
        shown == {k \in keep :
                     position(k) >= offset /\ position(k) < offset + limit} IN
    /\ Len(page) = Cardinality(shown)
    /\ \A k \in shown : page[position(k) - offset + 1] = pick[k]

\* C15: in every reachable state, for every offset, limit, min_price,
\* max_price and show_deleted, item List answers OK with the stored items, in
\* creation order, whose price is at least min_price and at most max_price
\* (an absent bound not constraining) and that are not deleted when
\* show_deleted is false, cut down to positions offset .. offset + limit - 1 of
\* that filtered sequence.
ItemListFiltersThenPaginates ==
    \A offset \in ItemOffsets, limit \in ItemLimits,
       min_price \in ItemMinPrices, max_price \in ItemMaxPrices,
       show_deleted \in BOOLEAN :
       LET r == get_items_response(offset, limit, min_price, max_price,
                                   show_deleted)
           keep == {k \in DOMAIN items_map :
                       /\ min_price # NonePrice =>
                             items_map[k].price >= min_price
                       /\ max_price # NonePrice =>
                             items_map[k].price <= max_price
                       /\ ~show_deleted => ~items_map[k].deleted} IN
       /\ r.status = OK
       /\ IsPage(r.body, items_map, keep, offset, limit)

\* C15 witness: with two items stored, the first of them deleted or cheaper
\* than the second, an item List has just returned the second item alone.
ItemListReturnedSecondItemOnly ==
    /\ resp.op = "get_items"
    /\ Len_(items_map) = 2
    /\ resp.body = <<items_map[2]>>
    /\ items_map[1].deleted \/ items_map[1].price < items_map[2].price

\* C16: in every reachable state, for every offset, limit and price and
\* quantity bounds, cart List answers OK with the views of the stored carts,
\* in creation order, whose price and whose total quantity (the number of
\* item ids the cart holds, deleted items included) are within the supplied
\* inclusive bounds, cut down to positions offset .. offset + limit - 1 of
\* that filtered sequence.
CartListFiltersThenPaginates ==
    \A offset \in CartOffsets, limit \in CartLimits,
       min_price \in CartPriceBounds, max_price \in CartPriceBounds,
       min_quantity \in CartQuantityBounds,
       max_quantity \in CartQuantityBounds :
       LET r == get_carts_response(offset, limit, min_price, max_price,
                                   min_quantity, max_quantity)
           view == [k \in DOMAIN cart_map |-> get_cart_response(k).body]
           quantity == [k \in DOMAIN cart_map |-> Len(cart_map[k].item_ids)]
           keep == {k \in DOMAIN cart_map :
                       /\ min_price # NonePrice => view[k].price >= min_price
                       /\ max_price # NonePrice => view[k].price <= max_price
                       /\ min_quantity # NoneQuantity =>
                             quantity[k] >= min_quantity
                       /\ max_quantity # NoneQuantity =>
                             quantity[k] <= max_quantity} IN
       /\ r.status = OK
       /\ IsPage(r.body, view, keep, offset, limit)

\* C16 witness: with two carts stored, the first of them empty and the second
\* holding an item id, a cart List has just returned the second cart alone.
CartListReturnedSecondCartOnly ==
    /\ resp.op = "get_carts"
    /\ Len_(cart_map) = 2
    /\ Len(resp.body) = 1
    /\ \E k \in DOMAIN cart_map :
          /\ resp.body[1] = get_cart_response(k).body
          /\ Len(cart_map[k].item_ids) > 0
          /\ \A j \in DOMAIN cart_map \ {k} :
                j < k /\ cart_map[j].item_ids = <<>>

\* C17 (as claimed): in every reachable state, item List and cart List with no
\* filter return the empty sequence for every offset that is at least the
\* number of records created, and with offset 0 and limit the number of
\* records created they return every created record, in creation order.
ListReturnsEveryCreatedRecord ==
    LET n == Len_(items_map)
        c == Len(cart_created) IN
    /\ \A offset \in n..(MaxItems + 1), limit \in ItemLimits :
          get_items_response(offset, limit, NonePrice, NonePrice,
                             TRUE).body = <<>>
    /\ n > 0 =>
          get_items_response(0, n, NonePrice, NonePrice, TRUE).body =
             [k \in 1..n |-> items_map[k]]
    /\ \A offset \in c..(MaxCartCreates + 1), limit \in CartLimits :
          get_carts_response(offset, limit, NonePrice, NonePrice,
                             NoneQuantity, NoneQuantity).body = <<>>
    /\ c > 0 =>
          LET page == get_carts_response(0, c, NonePrice, NonePrice,
                                         NoneQuantity, NoneQuantity).body IN
          /\ Len(page) = c
          /\ \A i \in 1..c : page[i].id = cart_created[i]

\* C18: in every step the keys of items_map are 1..n before and after it and
\* every item is stored under its own id; a Create of an item adds exactly the
\* key n + 1, and every other request, SoftDelete and Replace included, leaves
\* the set of keys as it was.
ItemKeysAreOneToN ==
    [][/\ DOMAIN items_map = 1..Len_(items_map)
       /\ DOMAIN items_map' = 1..Len_(items_map')
       /\ \A k \in DOMAIN items_map' : items_map'[k].id = k
       /\ IF resp'.op = "create_item"
          THEN Len_(items_map') = Len_(items_map) + 1
          ELSE DOMAIN items_map' = DOMAIN items_map]_vars

\* C18 witness: a SoftDelete has just answered OK, every item there can be is
\* stored under keys 1..MaxItems and every one of them is deleted.
AllItemsKeptThroughSoftDelete ==
    /\ resp.op = "delete_item"
    /\ resp.status = OK
    /\ DOMAIN items_map = 1..MaxItems
    /\ \A k \in DOMAIN items_map : items_map[k].deleted /\ items_map[k].id = k

\* C19: a step of item Get, Replace, PartialUpdate or SoftDelete with an id
\* that is not a key of items_map, or of cart Get with an id that is not a key
\* of cart_map, answers NOT_FOUND; and every step that answers NOT_FOUND
\* leaves items_map and cart_map as they were.
NotFoundOnAbsentId ==
    [][/\ resp'.op = "get_item" =>
             \A id \in Ids \ DOMAIN items_map :
                get_item(id) => resp'.status = NOT_FOUND
       /\ resp'.op = "put_item" =>
             \A id \in Ids \ DOMAIN items_map, name \in Names, price \in Prices :
                put_item(id, name, price) => resp'.status = NOT_FOUND
       /\ resp'.op = "patch_item" =>
             \A id \in Ids \ DOMAIN items_map,
                name \in OptNames, price \in OptPrices :
                patch_item(id, name, price) => resp'.status = NOT_FOUND
       /\ resp'.op = "delete_item" =>
             \A id \in Ids \ DOMAIN items_map :
                delete_item(id) => resp'.status = NOT_FOUND
       /\ resp'.op = "get_cart" =>
             \A id \in Ids \ DOMAIN cart_map :
                get_cart(id) => resp'.status = NOT_FOUND
       /\ resp'.status = NOT_FOUND =>
             items_map' = items_map /\ cart_map' = cart_map]_vars

\* C19 witness: with items and carts stored, a Replace has just answered
\* NOT_FOUND.
ReplaceAnsweredNotFound ==
    /\ resp.op = "put_item"
    /\ resp.status = NOT_FOUND
    /\ Len_(items_map) > 0
    /\ Len_(cart_map) > 0

\* C20: a step of item Get, item List, cart Get or cart List, whatever it
\* answers, leaves items_map and cart_map as they were; and in the state a
\* read leaves behind, the same request has the response the read has just
\* given.
ReadsChangeNothing ==
    /\ [][resp'.op \in {"get_item", "get_items", "get_cart", "get_carts"} =>
            items_map' = items_map /\ cart_map' = cart_map]_vars
    /\ [](/\ resp.op = "get_item" =>
                \E id \in Ids : resp = get_item_response(id)
          /\ resp.op = "get_cart" =>
                \E id \in Ids : resp = get_cart_response(id)
          /\ resp.op = "get_items" =>
                resp = get_items_response(DefaultOffset, DefaultLimit,
                                          NonePrice, NonePrice, TRUE)
          /\ resp.op = "get_carts" =>
                resp = get_carts_response(DefaultOffset, DefaultLimit,
                                          NonePrice, NonePrice,
                                          NoneQuantity, NoneQuantity))

\* C20 witness: with an item stored and not deleted, an item Get has just
\* answered NOT_FOUND.
ItemGetFailedNextToLiveItem ==
    /\ resp.op = "get_item"
    /\ resp.status = NOT_FOUND
    /\ \E k \in DOMAIN items_map : ~items_map[k].deleted

====
